---- MODULE Spec2Model ----
(***************************************************************************)
(* Model of model_selection.py: PerformanceTracker, Experiment and         *)
(* MultiExperiment.                                                        *)
(*                                                                         *)
(* Python values are represented as follows.                               *)
(*   None / an object reference : the empty tuple <<>> / a 1-tuple <<x>>   *)
(*   dict                       : a function; its iteration order is the   *)
(*                                insertion order kept beside it           *)
(*   float score                : an integer in 0..MaxScore; NegInf is     *)
(*                                -inf and NaN is nan                      *)
(*   an exception               : a record [exc, arg, at]                  *)
(***************************************************************************)
EXTENDS Integers, Sequences, FiniteSets

VARIABLES
    models_and_params,  \* Experiment.models_and_params
    nruns,              \* MultiExperiment.nruns
    verbose,            \* Experiment.verbose
    error_score,        \* what GridSearchCV does with a failed fit in this build
    results,            \* Experiment.results
    _data,              \* Experiment._data
    _rows,              \* Experiment._rows and Experiment._cols
    row_idx,            \* Experiment.row_idx and Experiment.col_idx
    _tracker,           \* MultiExperiment._tracker, or the tracker under test
    pc,                 \* position of the running execute_all call
    target,             \* arguments and loop variables of that call
    dataset,
    run_num,
    class_num,
    key_num,
    jaccard_calls,      \* what the jaccard calls of the latest step worked on
    tracker_before,     \* _tracker when a call with an invalid target began
    last                \* the latest finished operation and how it ended

vars == <<models_and_params, nruns, verbose, error_score, results, _data, _rows,
          row_idx, _tracker, pc, target, dataset, run_num, class_num, key_num,
          jaccard_calls, tracker_before, last>>

----------------------------------------------------------------------------
(* Bounds of the model *)

MaxScore == 0

MaxFitScore == 1

MaxTrials == 2

MaxUpdates == 2

MaxModels == 2

MaxGrid == 2

----------------------------------------------------------------------------
(* Values *)

None == <<>>

Some(x) == <<x>>

NegInf == -1

NaN == -2

FitFails == -3

Scores == 0..MaxScore

Outcomes == Scores \cup {FitFails}

Classes == {"c1", "c2"}

Range(s) == {s[i] : i \in 1..Len(s)}

Err(exc, arg, at) == [exc |-> exc, arg |-> arg, at |-> at]

NoError == Err("none", "", "")

\* Python's a > b on floats: false whenever one side is nan.
Gt(a, b) == a # NaN /\ b # NaN /\ a > b

\* A (name, model, score) triple, None, and a tuple of the wrong length.
Triple(name, model, score) ==
    [kind |-> "tuple3", name |-> name, model |-> model, score |-> score]

NoneEntry == [kind |-> "None", name |-> "", model |-> 0, score |-> 0]

PairEntry(name, score) ==
    [kind |-> "tuple2", name |-> name, model |-> 0, score |-> score]

----------------------------------------------------------------------------
(* PerformanceTracker *)

_setup_model_score_stats(test_classes, models) ==
    [c \in Range(test_classes) |-> [m \in Range(models) |-> <<>>]]

_setup_model_win_stats(test_classes, models) ==
    [c \in Range(test_classes) |-> [m \in Range(models) |-> 0]]

PerformanceTracker(test_classes, models) ==
    [test_classes  |-> test_classes,
     models        |-> models,
     model_scores  |-> _setup_model_score_stats(test_classes, models),
     winning_stats |-> _setup_model_win_stats(test_classes, models)]

\* A variant that counts the win and drops the score.
UpdateOneClassNoAppend(t, c, name, score) ==
    [t EXCEPT !.winning_stats[c][name] = @ + 1]

\* Lines 82-83: the winner's counter and the winner's score history.
UpdateOneClass(t, c, name, score) ==
    [t EXCEPT !.winning_stats[c][name] = @ + 1,
              !.model_scores[c][name] = Append(@, score)]

RECURSIVE UpdateFrom(_, _, _)
\* The loop of update_stats from the i-th test class on. A raise leaves the
\* tracker as the earlier iterations made it.
UpdateFrom(t, res, i) ==
    IF i > Len(t.test_classes)
    THEN [tracker |-> t, raised |-> NoError]
    ELSE LET c == t.test_classes[i] IN
         IF c \notin DOMAIN res
         THEN [tracker |-> t, raised |-> Err("KeyError", c, "update_stats")]
         ELSE LET e == res[c] IN
              IF e.kind = "None"
              THEN [tracker |-> t,
                    raised |-> Err("TypeError", "NoneType", "update_stats")]
              ELSE IF e.kind # "tuple3"
              THEN [tracker |-> t,
                    raised |-> Err("ValueError", "unpack", "update_stats")]
              ELSE IF e.name \notin DOMAIN t.winning_stats[c]
              THEN [tracker |-> t,
                    raised |-> Err("KeyError", e.name, "update_stats")]
              ELSE UpdateFrom(UpdateOneClass(t, c, e.name, e.score), res, i + 1)

update_stats(t, res) == UpdateFrom(t, res, 1)

RECURSIVE MaxFrom(_, _, _, _)
\* Python's max(items, key=count) from the i-th item on: the first item is
\* kept until a strictly greater one is met.
MaxFrom(order, counts, i, best) ==
    IF i > Len(order) THEN best
    ELSE MaxFrom(order, counts, i + 1,
                 IF counts[order[i]] > counts[best] THEN order[i] ELSE best)

RECURSIVE MaxFromLast(_, _, _, _)
\* A variant that lets a later item take over on an equal count.
MaxFromLast(order, counts, i, best) ==
    IF i > Len(order) THEN best
    ELSE MaxFromLast(order, counts, i + 1,
                     IF counts[order[i]] >= counts[best] THEN order[i] ELSE best)

\* A variant of winner_of that breaks ties towards the latest model.
winner_of_last(t, c) ==
    MaxFromLast(t.models, t.winning_stats[c], 2, t.models[1])

\* Line 94 for one test class; the dict iterates in the order of models.
winner_of(t, c) ==
    MaxFrom(t.models, t.winning_stats[c], 2, t.models[1])

\* The property winner_models: max() of an empty dict raises ValueError.
winner_models(t) ==
    IF t.test_classes # <<>> /\ t.models = <<>>
    THEN [value |-> None,
          raised |-> Err("ValueError", "max() arg is an empty sequence",
                         "winner_models")]
    ELSE [value |-> Some([c \in Range(t.test_classes) |-> winner_of(t, c)]),
          raised |-> NoError]

----------------------------------------------------------------------------
(* Experiment *)

\* data[key] and (rows[key], cols[key]) of the element-th entry of the
\* dataset.
DataOf(element, key) == [kind |-> "data", element |-> element, key |-> key]

TruthOf(element, key) == [kind |-> "truth", element |-> element, key |-> key]

\* A variant that keeps the ground truth already held by the instance.
SetTrainingSetKeepTruth(old_rows, element, key) ==
    [_data |-> Some(DataOf(element, key)),
     _rows |-> IF old_rows = None THEN Some(TruthOf(element, key)) ELSE old_rows]

\* Lines 144-145: the data and the ground truth of the class at hand.
SetTrainingSet(old_rows, element, key) ==
    [_data |-> Some(DataOf(element, key)),
     _rows |-> Some(TruthOf(element, key))]

\* Lines 173-175: sgen._shuffle returns the shuffled data and the
\* permutation it drew, which is stored in row_idx and col_idx.
Shuffle(data, old_idx, at) ==
    LET perm == [of |-> data, at |-> at]
    IN  [_train  |-> [data |-> data, perm |-> perm],
         row_idx |-> Some(perm)]

\* Lines 200-218: what a call of the scorer works on: the estimator fitted on
\* train, and the ground truth and the permutation the instance holds when it
\* is called.
jaccard(train, rows_now, idx_now) ==
    [fitted |-> train, rows |-> rows_now, idx |-> idx_now]

\* The smallest index of a failing fit, or 0.
FirstFail(outs) ==
    IF \E i \in 1..Len(outs) : outs[i] = FitFails
    THEN CHOOSE i \in 1..Len(outs) :
             /\ outs[i] = FitFails
             /\ \A j \in 1..(i - 1) : outs[j] # FitFails
    ELSE 0

\* The first index whose score no other score exceeds; nan ranks last.
BestIndex(mean) ==
    IF \A i \in 1..Len(mean) : mean[i] = NaN THEN 1
    ELSE CHOOSE i \in 1..Len(mean) :
             /\ mean[i] # NaN
             /\ \A j \in 1..Len(mean) : ~Gt(mean[j], mean[i])
             /\ \A j \in 1..(i - 1) : mean[j] # mean[i]

\* Lines 182-187: GridSearchCV(...).fit over one family's grid, given what
\* fitting and scoring each candidate yields. No error_score is passed, so a
\* failing fit either propagates ("raise") or scores nan ("nan"), as the
\* installed GridSearchCV defaults.
GridSearchCV_fit(outs, policy) ==
    LET f      == FirstFail(outs)
        raises == f # 0 /\ policy = "raise"
        mean   == [i \in 1..Len(outs) |->
                      IF outs[i] = FitFails THEN NaN ELSE outs[i]]
        b      == BestIndex(mean)
    IN  [raised       |-> raises,
         scored       |-> IF raises THEN 1..(f - 1)
                          ELSE {i \in 1..Len(outs) : outs[i] # FitFails},
         best_score_  |-> mean[b],
         best_params_ |-> b]

\* Line 193.
Better(score, best_score) == Gt(score, best_score)

RECURSIVE ScoreFrom(_, _, _, _, _, _, _, _)
\* The loop of score_eval from the i-th family on. winner is None while
\* winner_name and winner_model are unbound.
ScoreFrom(mp, fits, policy, train, rows_now, idx_now, i, st) ==
    IF i > Len(mp)
    THEN IF st.winner = None
         THEN [raised |-> Err("UnboundLocalError", "winner_name", "score_eval"),
               value  |-> NoneEntry, calls |-> st.calls]
         ELSE [raised |-> NoError,
               value  |-> Triple(st.winner[1].name, st.winner[1].model,
                                 st.best_score),
               calls  |-> st.calls]
    ELSE LET g     == GridSearchCV_fit(fits[i], policy)
             calls == st.calls \cup
                      {jaccard(train, rows_now, idx_now) : j \in g.scored}
         IN  IF g.raised
             THEN [raised |-> Err("FitError", mp[i].name, "GridSearchCV.fit"),
                   value  |-> NoneEntry, calls |-> calls]
             ELSE ScoreFrom(mp, fits, policy, train, rows_now, idx_now, i + 1,
                     IF Better(g.best_score_, st.best_score)
                     THEN [winner     |-> Some([name  |-> mp[i].name,
                                                model |-> g.best_params_]),
                           best_score |-> g.best_score_,
                           calls      |-> calls]
                     ELSE [st EXCEPT !.calls = calls])

\* Lines 170-198.
score_eval(data, rows_now, old_idx, mp, fits, policy, at) ==
    LET sh  == Shuffle(data, old_idx, at)
        out == ScoreFrom(mp, fits, policy, sh._train, rows_now, sh.row_idx, 1,
                         [winner |-> None, best_score |-> NegInf, calls |-> {}])
    IN  [raised |-> out.raised, value |-> out.value, calls |-> out.calls,
         row_idx |-> sh.row_idx]

\* Lines 224-226: the body is pass, so the call returns None.
time_eval(old_idx) ==
    [raised |-> NoError, value |-> NoneEntry, calls |-> {}, row_idx |-> old_idx]

\* Lines 156-168.
compare_models(tg, data, rows_now, old_idx, mp, fits, policy, at) ==
    IF tg = "score"
    THEN score_eval(data, rows_now, old_idx, mp, fits, policy, at)
    ELSE IF tg = "time"
    THEN time_eval(old_idx)
    ELSE [raised |-> Err("ValueError", tg, "compare_models"),
          value |-> NoneEntry, calls |-> {}, row_idx |-> old_idx]

\* Line 279.
model_labels(mp) == [i \in 1..Len(mp) |-> mp[i].name]

----------------------------------------------------------------------------
(* MultiExperiment *)

\* The registered list of the module's own run (lines 329-339): a family
\* with a grid of several candidates and a family with a single one.
DefaultModels ==
    <<[name |-> "A", ngrid |-> 2], [name |-> "B", ngrid |-> 1]>>

FamilySet == {"A", "B", "C"}

Targets == {"score", "time", "bogus"}

\* data.keys() of a dataset element
KeyLists == {<<"c1">>, <<"c1", "c2">>}

\* The dataset collections: every element holds the same test classes, as
\* the ones built at lines 320-327 do.
Datasets == {[i \in 1..n |-> keys] : n \in 0..MaxTrials, keys \in KeyLists}

TestClassLists == {<<"c1">>, <<"c1", "c2">>}

RECURSIVE FitsUpTo(_, _, _)
FitsUpTo(mp, i, outs) ==
    IF i = 0 THEN {<<>>}
    ELSE {Append(f, g) : f \in FitsUpTo(mp, i - 1, outs),
                         g \in [1..mp[i].ngrid -> outs]}

\* What fitting and scoring can yield for every candidate of every family,
\* each candidate's outcome being one of outs.
FitsFor(mp, outs) == FitsUpTo(mp, Len(mp), outs)

Op(op, raised, value, args) ==
    [op |-> op, raised |-> raised, value |-> value, args |-> args]

RECURSIVE NextPosOnePerRun(_, _, _, _)
\* A variant that leaves the inner loop after the first dataset element.
NextPosOnePerRun(run, cls, n, ds) ==
    IF run >= n THEN [done |-> TRUE, run |-> run, cls |-> 0]
    ELSE IF cls >= Len(ds) \/ cls >= 1 THEN NextPosOnePerRun(run + 1, 0, n, ds)
    ELSE [done |-> FALSE, run |-> run, cls |-> cls]

RECURSIVE NextPos(_, _, _, _)
\* Lines 284 and 290: the next (run, dataset element) whose body runs, or
\* done when both loops are exhausted.
NextPos(run, cls, n, ds) ==
    IF run >= n THEN [done |-> TRUE, run |-> run, cls |-> 0]
    ELSE IF cls >= Len(ds) THEN NextPos(run + 1, 0, n, ds)
    ELSE [done |-> FALSE, run |-> run, cls |-> cls]

\* The arguments and loop variables of a call, kept in last once it ended.
Call(tg, ds, run) == [target |-> tg, dataset |-> ds, run_num |-> run]

\* Moves execute_all(ds, target=tg) to position p: it returns (line 301), or
\* execute is entered (line 138) and reaches its loop over data.keys().
Enter(p, ds, tg) ==
    IF p.done
    THEN /\ pc' = "idle"
         /\ results' = results
         /\ target' = ""
         /\ dataset' = <<>>
         /\ run_num' = 0
         /\ class_num' = 0
         /\ key_num' = 0
         /\ last' = Op("execute_all", NoError, None, Call(tg, ds, p.run))
    ELSE /\ pc' = IF Len(ds[p.cls + 1]) = 0 THEN "update" ELSE "execute"
         /\ results' = Some(<<>>)
         /\ target' = tg
         /\ dataset' = ds
         /\ run_num' = p.run
         /\ class_num' = p.cls
         /\ key_num' = 0
         /\ last' = Op("execute_all", NoError, None, None)

\* The call ends by raising e.
Raise(e) ==
    /\ pc' = "idle"
    /\ target' = ""
    /\ dataset' = <<>>
    /\ run_num' = 0
    /\ class_num' = 0
    /\ key_num' = 0
    /\ last' = Op("execute_all", e, None, Call(target, dataset, run_num))

\* Line 283, up to the first execute.
ExecuteAllBegin(ds, tc, tg) ==
    /\ pc = "idle"
    /\ nruns * Len(ds) <= MaxTrials
    /\ _tracker' = Some(PerformanceTracker(tc, model_labels(models_and_params)))
    /\ jaccard_calls' = {}
    /\ Enter(NextPos(0, 0, nruns, ds), ds, tg)
    /\ UNCHANGED <<models_and_params, nruns, verbose, error_score, _data, _rows,
                   row_idx>>

ExecuteAll(ds, tc, tg) ==
    /\ ExecuteAllBegin(ds, tc, tg)
    /\ UNCHANGED tracker_before

\* The same call, keeping the tracker it found for comparison afterwards.
ExecuteAllObserved(ds, tc, tg) ==
    /\ ExecuteAllBegin(ds, tc, tg)
    /\ tracker_before' = Some(_tracker)

\* Lines 139-152: one pass of the loop of execute.
ExecuteKey ==
    /\ pc = "execute"
    /\ LET keys == dataset[class_num + 1]
           key  == keys[key_num + 1]
           at   == [run |-> run_num, element |-> class_num + 1, key |-> key]
       IN  \E fits \in IF target = "score"
                       THEN FitsFor(models_and_params, Outcomes)
                       ELSE {<<>>} :
           LET ts == SetTrainingSet(_rows, class_num + 1, key)
               cm == compare_models(target, ts._data[1], ts._rows, row_idx,
                                    models_and_params, fits, error_score, at)
               stored == Some([k \in DOMAIN results[1] \cup {key} |->
                                  IF k = key THEN cm.value ELSE results[1][k]])
           IN  /\ _data' = ts._data
               /\ _rows' = ts._rows
               /\ row_idx' = cm.row_idx
               /\ jaccard_calls' = cm.calls
               /\ IF cm.raised # NoError
                  THEN /\ results' = results
                       /\ Raise(cm.raised)
                  ELSE /\ results' = stored
                       /\ IF verbose > 0 /\ cm.value.kind # "tuple3"
                          THEN Raise(Err("TypeError", "NoneType", "execute"))
                          ELSE /\ key_num' = key_num + 1
                               /\ pc' = IF key_num + 1 = Len(keys)
                                        THEN "update" ELSE "execute"
                               /\ UNCHANGED <<target, dataset, run_num,
                                              class_num, last>>
    /\ UNCHANGED <<models_and_params, nruns, verbose, error_score, _tracker,
                   tracker_before>>

\* Line 299, and on to the next execute or the return at line 301.
UpdateStats ==
    /\ pc = "update"
    /\ LET u == update_stats(_tracker[1], results[1])
       IN  /\ _tracker' = Some(u.tracker)
           /\ IF u.raised # NoError
              THEN /\ Raise(u.raised)
                   /\ results' = results
              ELSE Enter(NextPos(run_num, class_num + 1, nruns, dataset), dataset,
                         target)
    /\ jaccard_calls' = {}
    /\ UNCHANGED <<models_and_params, nruns, verbose, error_score, _data, _rows,
                   row_idx, tracker_before>>

\* Lines 246-249.
class_winners ==
    IF _tracker = None
    THEN [value |-> None,
          raised |-> Err("AttributeError", "winner_models", "class_winners")]
    ELSE winner_models(_tracker[1])

\* Lines 251-254.
model_votes ==
    IF _tracker = None
    THEN [value |-> None,
          raised |-> Err("AttributeError", "winning_stats", "model_votes")]
    ELSE [value |-> Some(_tracker[1].winning_stats), raised |-> NoError]

RECURSIVE SumSeq(_)
SumSeq(s) == IF s = <<>> THEN 0 ELSE s[1] + SumSeq(Tail(s))

\* np.mean as the fraction <<sum, n>>; of an empty list it is nan, <<0, 0>>.
Mean(s) == <<SumSeq(s), Len(s)>>

\* np.std by its square, the fraction <<n * sum of squares - sum^2, n^2>>.
Std(s) ==
    <<Len(s) * SumSeq([i \in 1..Len(s) |-> s[i] * s[i]]) - SumSeq(s) * SumSeq(s),
      Len(s) * Len(s)>>

\* Lines 256-274.
performance_report ==
    LET w == class_winners
    IN  IF w.raised # NoError THEN w
        ELSE [value |-> Some([c \in DOMAIN w.value[1] |->
                         LET win_scores ==
                                 _tracker[1].model_scores[c][w.value[1][c]]
                         IN  [model |-> w.value[1][c],
                              avg   |-> Mean(win_scores),
                              std   |-> Std(win_scores)]]),
              raised |-> NoError]

Query(op, r) ==
    /\ pc = "idle"
    /\ last' = Op(op, r.raised, r.value, None)
    /\ UNCHANGED <<models_and_params, nruns, verbose, error_score, results, _data,
                   _rows, row_idx, _tracker, pc, target, dataset, run_num,
                   class_num, key_num, jaccard_calls, tracker_before>>

ClassWinners == Query("class_winners", class_winners)

ModelVotes == Query("model_votes", model_votes)

PerformanceReport == Query("performance_report", performance_report)

\* MultiExperiment(DefaultModels, nruns, verbose), lines 231-239 and 111-128.
Init ==
    /\ models_and_params = DefaultModels
    /\ nruns \in 0..MaxTrials
    /\ verbose \in {0, 1}
    /\ error_score \in {"raise", "nan"}
    /\ results = None
    /\ _data = None
    /\ _rows = None
    /\ row_idx = None
    /\ _tracker = None
    /\ pc = "idle"
    /\ target = ""
    /\ dataset = <<>>
    /\ run_num = 0
    /\ class_num = 0
    /\ key_num = 0
    /\ jaccard_calls = {}
    /\ tracker_before = None
    /\ last = Op("__init__", NoError, None, None)

Next ==
    \/ \E ds \in Datasets, tc \in TestClassLists, tg \in Targets :
           ExecuteAll(ds, tc, tg)
    \/ ExecuteKey
    \/ UpdateStats
    \/ ClassWinners
    \/ ModelVotes
    \/ PerformanceReport

Spec == Init /\ [][Next]_vars

----------------------------------------------------------------------------
(* Sequences of execute_all calls, each compared with the tracker it found *)

NextCalls ==
    \/ \E ds \in Datasets, tc \in TestClassLists, tg \in Targets :
           ExecuteAllObserved(ds, tc, tg)
    \/ ExecuteKey
    \/ UpdateStats

SpecCalls == Init /\ [][NextCalls]_vars

----------------------------------------------------------------------------
(* A PerformanceTracker on its own *)

\* The lists of distinct model labels of at most MaxModels families.
ModelLists ==
    {ms \in UNION {[1..n -> FamilySet] : n \in 0..MaxModels} :
         \A i, j \in 1..Len(ms) : ms[i] = ms[j] => i = j}

EntryInputs ==
    {Triple(n, 1, sc) : n \in FamilySet, sc \in Scores}
        \cup {NoneEntry, PairEntry("A", 0)}

\* The dicts handed to update_stats: any classes, any entries.
ResultsInputs == UNION {[S -> EntryInputs] : S \in SUBSET Classes}

\* The wins recorded for class c, over all families.
Wins(t, c) ==
    SumSeq([i \in 1..Len(t.models) |-> t.winning_stats[c][t.models[i]]])

\* Lines 76-85, called until some class holds MaxUpdates wins.
UpdateStatsCall(res) ==
    /\ pc = "idle"
    /\ \A c \in Range(_tracker[1].test_classes) : Wins(_tracker[1], c) < MaxUpdates
    /\ LET u == update_stats(_tracker[1], res)
       IN  /\ _tracker' = Some(u.tracker)
           /\ last' = Op("update_stats", u.raised, None, None)
    /\ UNCHANGED <<models_and_params, nruns, verbose, error_score, results, _data,
                   _rows, row_idx, pc, target, dataset, run_num, class_num,
                   key_num, jaccard_calls, tracker_before>>

\* Lines 87-97.
WinnerModelsCall == Query("winner_models", winner_models(_tracker[1]))

\* PerformanceTracker(test_classes, models), lines 44-51.
InitTracker ==
    /\ models_and_params = <<>>
    /\ nruns = 0
    /\ verbose = 0
    /\ error_score = "raise"
    /\ results = None
    /\ _data = None
    /\ _rows = None
    /\ row_idx = None
    /\ _tracker \in {Some(PerformanceTracker(tc, ms)) :
                        tc \in TestClassLists, ms \in ModelLists}
    /\ pc = "idle"
    /\ target = ""
    /\ dataset = <<>>
    /\ run_num = 0
    /\ class_num = 0
    /\ key_num = 0
    /\ jaccard_calls = {}
    /\ tracker_before = None
    /\ last = Op("__init__", NoError, None, None)

NextTracker ==
    \/ \E res \in ResultsInputs : UpdateStatsCall(res)
    \/ WinnerModelsCall

SpecTracker == InitTracker /\ [][NextTracker]_vars

----------------------------------------------------------------------------
(* Experiment.compare_models on its own *)

FitOutcomes == (0..MaxFitScore) \cup {FitFails}

\* The registered lists: distinct families, each with a grid of 1..MaxGrid
\* candidates.
RegisteredLists ==
    {mp \in UNION {[1..n -> [name : FamilySet, ngrid : 1..MaxGrid]] :
                       n \in 1..MaxModels} :
         \A i, j \in 1..Len(mp) : mp[i].name = mp[j].name => i = j}

\* compare_models(target=tg) on an instance holding the data of one class.
CompareModelsCall(tg, fits) ==
    /\ pc = "idle"
    /\ LET cm == compare_models(tg, _data[1], _rows, row_idx, models_and_params,
                                fits, error_score,
                                [run |-> 0, element |-> 1, key |-> "c1"])
       IN  /\ row_idx' = cm.row_idx
           /\ jaccard_calls' = cm.calls
           /\ last' = Op("compare_models", cm.raised, Some(cm.value),
                         [target |-> tg, fits |-> fits])
    /\ UNCHANGED <<models_and_params, nruns, verbose, error_score, results, _data,
                   _rows, _tracker, pc, target, dataset, run_num, class_num,
                   key_num, tracker_before>>

\* Experiment(models_and_params) after lines 144-145 of execute.
InitCompare ==
    /\ models_and_params \in RegisteredLists
    /\ nruns = 0
    /\ verbose = 0
    /\ error_score \in {"raise", "nan"}
    /\ results = Some(<<>>)
    /\ _data = Some(DataOf(1, "c1"))
    /\ _rows = Some(TruthOf(1, "c1"))
    /\ row_idx = None
    /\ _tracker = None
    /\ pc = "idle"
    /\ target = ""
    /\ dataset = <<>>
    /\ run_num = 0
    /\ class_num = 0
    /\ key_num = 0
    /\ jaccard_calls = {}
    /\ tracker_before = None
    /\ last = Op("__init__", NoError, None, None)

NextCompare ==
    \E tg \in Targets, fits \in FitsFor(models_and_params, FitOutcomes) :
        CompareModelsCall(tg, fits)

SpecCompare == InitCompare /\ [][NextCompare]_vars

----------------------------------------------------------------------------
(* Properties *)

TrackedClasses == Range(_tracker[1].test_classes)

CallEnded == pc = "idle" /\ last.op = "execute_all"

CallReturned == CallEnded /\ last.raised = NoError

\* C1 as stated: once k passes of the run loop are complete every class
\* holds k wins in all, and nruns wins when execute_all returns.
C1_WinsEqualPasses ==
    /\ (pc # "idle" /\ class_num = 0) =>
           \A c \in TrackedClasses : Wins(_tracker[1], c) = run_num
    /\ CallReturned =>
           \A c \in TrackedClasses : Wins(_tracker[1], c) = nruns

\* C1 amended: update_stats runs once per dataset element, so every class
\* holds one win per element executed: k * len(dataset) after k passes, that
\* plus the elements done within the current pass, and nruns * len(dataset)
\* when execute_all returns.
C1_WinsEqualTrials ==
    /\ pc # "idle" =>
           \A c \in TrackedClasses :
               Wins(_tracker[1], c) = run_num * Len(dataset) + class_num
    /\ CallReturned =>
           \A c \in TrackedClasses :
               Wins(_tracker[1], c) = nruns * Len(last.args.dataset)

\* A call over two dataset elements has returned.
C1_Witness ==
    /\ CallReturned
    /\ nruns >= 1
    /\ Len(last.args.dataset) = 2
    /\ \A c \in TrackedClasses : Wins(_tracker[1], c) >= 2

\* C2: between calls, every score history is as long as its win counter.
C2_HistoryLengthIsWins ==
    _tracker # None =>
        \A c \in TrackedClasses : \A f \in Range(_tracker[1].models) :
            Len(_tracker[1].model_scores[c][f]) = _tracker[1].winning_stats[c][f]

\* An update_stats call raised on a tracker that holds recorded wins.
C2_Witness ==
    /\ last.op = "update_stats"
    /\ last.raised # NoError
    /\ \E c \in TrackedClasses : \E f \in Range(_tracker[1].models) :
           _tracker[1].winning_stats[c][f] >= 2

\* The best grid score of a family: its highest score among the fits that
\* did not fail, the worst possible score when all failed.
FamilyBest(outs) ==
    IF \A j \in 1..Len(outs) : outs[j] = FitFails THEN NegInf
    ELSE CHOOSE b \in Range(outs) \ {FitFails} :
             \A j \in 1..Len(outs) : outs[j] <= b

\* C3: compare_models(target='score') returns one triple, its score the
\* highest of the families' best scores and its family the earliest one in
\* the registered list with that score.
C3_ReturnsEarliestBest ==
    (last.op = "compare_models" /\ last.args.target = "score") =>
        LET fits == last.args.fits
            n    == Len(models_and_params)
            v    == last.value[1]
        IN  /\ last.raised = NoError
            /\ v.kind = "tuple3"
            /\ \A i \in 1..n : FamilyBest(fits[i]) <= v.score
            /\ \E i \in 1..n :
                   /\ v.name = models_and_params[i].name
                   /\ FamilyBest(fits[i]) = v.score
                   /\ \A k \in 1..(i - 1) : FamilyBest(fits[k]) < v.score

\* C4: for a tracker with registered models, winner_models returns, without
\* raising, for every class the family with the highest count, and among
\* families sharing it the one registered earliest.
C4_WinnerIsEarliestMax ==
    (last.op = "winner_models" /\ _tracker[1].models # <<>>) =>
        /\ last.raised = NoError
        /\ \A c \in TrackedClasses :
               LET ms     == _tracker[1].models
                   counts == _tracker[1].winning_stats[c]
               IN  \E i \in 1..Len(ms) :
                       /\ last.value[1][c] = ms[i]
                       /\ \A k \in 1..Len(ms) : counts[ms[k]] <= counts[ms[i]]
                       /\ \A k \in 1..(i - 1) : counts[ms[k]] < counts[ms[i]]

\* winner_models was read while two families share the highest count of a
\* class, a count above zero.
C4_Witness ==
    /\ last.op = "winner_models"
    /\ last.raised = NoError
    /\ \E c \in TrackedClasses :
           LET ms == _tracker[1].models
           IN  /\ Len(ms) >= 2
               /\ _tracker[1].winning_stats[c][ms[1]] >= 1
               /\ _tracker[1].winning_stats[c][ms[1]]
                      = _tracker[1].winning_stats[c][ms[2]]
               /\ last.value[1][c] = ms[1]

\* Some win is recorded in tracker t.
HasWins(t) == \E c \in Range(t.test_classes) : Wins(t, c) > 0

\* C5: execute_all with an invalid target raises an error naming the value
\* and leaves the tracker, with the wins an earlier call recorded, as it was.
C5_InvalidTargetKeepsTracker ==
    (/\ CallEnded
     /\ last.args.target \notin {"score", "time"}
     /\ tracker_before[1] # None
     /\ HasWins(tracker_before[1][1])) =>
        /\ last.raised.exc = "ValueError"
        /\ last.raised.arg = last.args.target
        /\ _tracker = tracker_before[1]

\* C6: execute_all with target='time', once it reaches a comparison, ends in
\* an error raised by compare_models and stores no value in results.
C6_TimeModeFails ==
    (/\ CallEnded
     /\ last.args.target = "time"
     /\ nruns > 0
     /\ last.args.dataset # <<>>) =>
        /\ last.raised # NoError
        /\ last.raised.at = "compare_models"
        /\ results = Some(<<>>)

\* No trial is recorded in the tracker of the instance.
NoTrialRecorded == _tracker = None \/ ~HasWins(_tracker[1])

\* C7: class_winners, model_votes and performance_report, read before any
\* trial is recorded, return without raising.
C7_QueriesBeforeAnyTrial ==
    (/\ last.op \in {"class_winners", "model_votes", "performance_report"}
     /\ NoTrialRecorded) =>
        last.raised = NoError

\* C8: when some fit fails and some fit does not, compare_models raises
\* nothing and returns a winner with the highest score among the
\* candidates that did not fail.
C8_FitFailureIsWorstScore ==
    (/\ last.op = "compare_models"
     /\ last.args.target = "score"
     /\ \E i \in 1..Len(last.args.fits) : FitFails \in Range(last.args.fits[i])
     /\ \E i \in 1..Len(last.args.fits) :
            Range(last.args.fits[i]) # {FitFails}) =>
        LET fits == last.args.fits
            v    == last.value[1]
        IN  /\ last.raised = NoError
            /\ v.kind = "tuple3"
            /\ \E i \in 1..Len(fits) :
                   /\ v.name = models_and_params[i].name
                   /\ v.model \in 1..Len(fits[i])
                   /\ fits[i][v.model] = v.score
            /\ \A i \in 1..Len(fits) : \A j \in 1..Len(fits[i]) :
                   fits[i][j] <= v.score

\* C9: an update_stats call that raises leaves the tracker as it found it.
C9_UpdateIsAtomic ==
    [][(last'.op = "update_stats" /\ last'.raised # NoError) =>
           _tracker' = _tracker]_vars

\* C10: every jaccard call works on the ground truth of the data its
\* estimator was fitted on, reindexed by the permutation that the shuffle of
\* that data drew in the score_eval call at hand.
C10_ScoringAligned ==
    \A j \in jaccard_calls :
        /\ Some(j.fitted.data) = _data
        /\ j.rows = Some(TruthOf(j.fitted.data.element, j.fitted.data.key))
        /\ j.idx = Some(j.fitted.perm)
        /\ j.fitted.perm.of = j.fitted.data
        /\ pc # "idle" =>
               /\ j.fitted.data = DataOf(class_num + 1,
                                         dataset[class_num + 1][key_num])
               /\ j.fitted.perm.at =
                      [run |-> run_num, element |-> class_num + 1,
                       key |-> dataset[class_num + 1][key_num]]

\* The second class of the second dataset element was scored.
C10_Witness ==
    /\ pc # "idle"
    /\ jaccard_calls # {}
    /\ class_num = 1
    /\ key_num = 2

====
